---- MODULE Spec2Model ----
(***************************************************************************)
(* A model of bench.py: the splitmix64 workload generator, the sharded     *)
(* counter store, and the two execution models (threads sharing one store  *)
(* under per-shard locks, pool processes each with a private store).       *)
(***************************************************************************)
EXTENDS Integers, Sequences, FiniteSets, TLC

\* ------------------------------------------------------------- bounds
MaxThreads == 2
MaxIterations == 4
MaxKeys == 2
MaxShards == 2

\* The command lines explored.  A read ratio is a decimal fraction n/RatioDen.
RatioDen == 10000
ReadRatios == {0, 5000, 10000}
Seeds == {1}
Models == {"threads", "processes", "gevent"}

\* ------------------------------------------------- 64-bit arithmetic
\* A 64-bit value is a tuple of NLimbs limbs of 8 bits, least significant
\* first: TLC's integers are 32 bits wide, Python's "& ((1 << 64) - 1)" is not.
NLimbs == 8
LimbBase == 256

Limb(a, i) == IF i >= 1 /\ i <= NLimbs THEN a[i] ELSE 0

\* seed & ((1 << 64) - 1), for a seed >= 0 that fits TLC's integers
Mask64(n) ==
  <<n % LimbBase, (n \div LimbBase) % LimbBase, (n \div (LimbBase * LimbBase)) % LimbBase,
    n \div (LimbBase * LimbBase * LimbBase), 0, 0, 0, 0>>

\* (a + b) & ((1 << 64) - 1): limb by limb with the carry, the last carry dropped
Add64(a, b) ==
  LET t1 == a[1] + b[1]
      t2 == a[2] + b[2] + (t1 \div LimbBase)
      t3 == a[3] + b[3] + (t2 \div LimbBase)
      t4 == a[4] + b[4] + (t3 \div LimbBase)
      t5 == a[5] + b[5] + (t4 \div LimbBase)
      t6 == a[6] + b[6] + (t5 \div LimbBase)
      t7 == a[7] + b[7] + (t6 \div LimbBase)
      t8 == a[8] + b[8] + (t7 \div LimbBase)
  IN  <<t1 % LimbBase, t2 % LimbBase, t3 % LimbBase, t4 % LimbBase, t5 % LimbBase, t6 % LimbBase, t7 % LimbBase, t8 % LimbBase>>

\* (a * b) & ((1 << 64) - 1): column k sums the products of limbs i and k+1-i
\* and the carry of column k-1; the columns past the eighth are dropped
Mul64(a, b) ==
  LET t1 == a[1] * b[1]
      t2 == a[1] * b[2] + a[2] * b[1] + (t1 \div LimbBase)
      t3 == a[1] * b[3] + a[2] * b[2] + a[3] * b[1] + (t2 \div LimbBase)
      t4 == a[1] * b[4] + a[2] * b[3] + a[3] * b[2] + a[4] * b[1] + (t3 \div LimbBase)
      t5 == a[1] * b[5] + a[2] * b[4] + a[3] * b[3] + a[4] * b[2] + a[5] * b[1] + (t4 \div LimbBase)
      t6 == a[1] * b[6] + a[2] * b[5] + a[3] * b[4] + a[4] * b[3] + a[5] * b[2] + a[6] * b[1] + (t5 \div LimbBase)
      t7 == a[1] * b[7] + a[2] * b[6] + a[3] * b[5] + a[4] * b[4] + a[5] * b[3] + a[6] * b[2] + a[7] * b[1] + (t6 \div LimbBase)
      t8 == a[1] * b[8] + a[2] * b[7] + a[3] * b[6] + a[4] * b[5] + a[5] * b[4] + a[6] * b[3] + a[7] * b[2] + a[8] * b[1] + (t7 \div LimbBase)
  IN  <<t1 % LimbBase, t2 % LimbBase, t3 % LimbBase, t4 % LimbBase, t5 % LimbBase, t6 % LimbBase, t7 % LimbBase, t8 % LimbBase>>

\* 1 << n, for 0 <= n <= 8
Pow2(n) == <<1, 2, 4, 8, 16, 32, 64, 128, 256>>[n + 1]

\* limb i of a >> (8 * q + r)
ShrLimb(a, q, r, i) ==
  (Limb(a, i + q) \div Pow2(r)) + (Limb(a, i + q + 1) % Pow2(r)) * Pow2(8 - r)

\* a >> n
Shr64(a, n) ==
  LET q == n \div 8
      r == n % 8
  IN  <<ShrLimb(a, q, r, 1), ShrLimb(a, q, r, 2), ShrLimb(a, q, r, 3), ShrLimb(a, q, r, 4),
        ShrLimb(a, q, r, 5), ShrLimb(a, q, r, 6), ShrLimb(a, q, r, 7), ShrLimb(a, q, r, 8)>>

\* x ^ y for 8-bit x and y: bit by bit, the sum of the two bits modulo 2
XorLimb(x, y) ==
  ((x + y) % 2)
    + 2 * (((x \div 2) + (y \div 2)) % 2)
    + 4 * (((x \div 4) + (y \div 4)) % 2)
    + 8 * (((x \div 8) + (y \div 8)) % 2)
    + 16 * (((x \div 16) + (y \div 16)) % 2)
    + 32 * (((x \div 32) + (y \div 32)) % 2)
    + 64 * (((x \div 64) + (y \div 64)) % 2)
    + 128 * (((x \div 128) + (y \div 128)) % 2)

\* a ^ b
Xor64(a, b) ==
  <<XorLimb(a[1], b[1]), XorLimb(a[2], b[2]), XorLimb(a[3], b[3]), XorLimb(a[4], b[4]),
    XorLimb(a[5], b[5]), XorLimb(a[6], b[6]), XorLimb(a[7], b[7]), XorLimb(a[8], b[8])>>

\* a % m, for 1 <= m <= 1000: from the most significant limb down
Mod64(a, m) ==
  LET r8 == a[8] % m
      r7 == (r8 * LimbBase + a[7]) % m
      r6 == (r7 * LimbBase + a[6]) % m
      r5 == (r6 * LimbBase + a[5]) % m
      r4 == (r5 * LimbBase + a[4]) % m
      r3 == (r4 * LimbBase + a[3]) % m
      r2 == (r3 * LimbBase + a[2]) % m
  IN  (r2 * LimbBase + a[1]) % m

\* ------------------------------------------------------- splitmix64
GAMMA == <<21, 124, 74, 127, 185, 121, 55, 158>>   \* 0x9E3779B97F4A7C15
MIX1 == <<185, 229, 228, 28, 109, 71, 88, 191>>    \* 0xBF58476D1CE4E5B9
MIX2 == <<235, 17, 49, 19, 187, 73, 208, 148>>     \* 0x94D049BB133111EB

\* x = (x + 0x9E3779B97F4A7C15) & mask: the generator's counter after one more draw
Advance(x) == Add64(x, GAMMA)

\* the one element of a one-element set.  Written {e(v) : v \in {d}}, a value
\* d that e uses many times is worked out once.
The(S) == CHOOSE z \in S : TRUE

\* x ^ (x >> n)
XorShift(x, n) == The({Xor64(x, s) : s \in {Shr64(x, n)}})

\* the value yielded for counter x:
\*   z = (z ^ (z >> 30)) * 0xBF58476D1CE4E5B9 & mask
\*   z = (z ^ (z >> 27)) * 0x94D049BB133111EB & mask
\*   yield z ^ (z >> 31)
Mix(x) ==
  The({XorShift(z2, 31) :
         z2 \in {Mul64(y2, MIX2) :
           y2 \in {XorShift(z1, 27) :
             z1 \in {Mul64(y1, MIX1) :
               y1 \in {XorShift(x0, 30) : x0 \in {x}}}}}})

\* splitmix64(seed): the generator before its first draw
splitmix64(seed) == Mask64(seed)

\* next(rnd): <<value, generator after the draw>>
NextDraw(x) == LET y == Advance(x) IN <<Mix(y), y>>

\* ------------------------------------------------------------ store
\* A dict is a function from the keys it holds; a store is one dict per shard.
EmptyDict == [x \in {} |-> 0]

\* d.get(k, dflt)
Get(d, k, dflt) == IF k \in DOMAIN d THEN d[k] ELSE dflt

\* d[k] = v
Put(d, k, v) == [x \in DOMAIN d \cup {k} |-> IF x = k THEN v ELSE d[x]]

\* [dict() for _ in range(n)]
NewShards(n) == [s \in 0..(n - 1) |-> EmptyDict]

\* [threading.Lock() for _ in range(n)]: FALSE is unlocked
NewLocks(n) == [s \in 0..(n - 1) |-> FALSE]

\* a route that is off by one
routeSkewed(k, n) == (k + 1) % n

\* k % len(shards), for len(shards) >= 1
route(k, n) == k % n

\* the size of the product, its sign dropped
IntReadsUnsigned(rr) ==
  LET p == rr * 1000
  IN  IF p >= 0 THEN p \div RatioDen ELSE (0 - p) \div RatioDen

\* int(read_ratio * 1000): int() truncates towards zero
IntReads(rr) ==
  LET p == rr * 1000
  IN  IF p >= 0 THEN p \div RatioDen ELSE 0 - ((0 - p) \div RatioDen)

\* ------------------------------------------------------------ state
VARIABLES
  args,     \* the parsed command line
  mpc,      \* where main() is
  per,      \* iterations of each worker
  i,        \* main's loop index (prefill, start, join)
  shards,   \* the shared store of the threads model
  locks,    \* its locks, one per shard
  out,      \* standard output: the records printed
  err,      \* the error stream
  status,   \* the exit status, -1 while main runs
  wpc,      \* where each worker is
  rnd,      \* each worker's generator
  left,     \* iterations each worker still has to run
  wk, wr, ws, tmp,  \* a worker thread's locals k, r, s and the value it read
  held,     \* the locks each worker thread is inside the with block of
  ops,      \* log: the operations each worker has applied to its store
  draws,    \* log: how many values each worker has drawn
  queue,    \* the pool's task queue
  proc,     \* the task each pool process runs, -1 when idle
  ran,      \* log: the tasks each pool process has run
  pshards,  \* each worker process's private store
  pidx      \* each worker process's prefill index

margs == <<args, per, i>>
io == <<out, err, status>>
tlocals == <<wk, wr, ws, tmp, held>>
wlog == <<ops, draws>>
wstate == <<wpc, rnd, left>>
pool == <<queue, proc, ran, pshards, pidx>>
vars == <<args, mpc, per, i, shards, locks, out, err, status, wpc, rnd, left,
          wk, wr, ws, tmp, held, ops, draws, queue, proc, ran, pshards, pidx>>

Workers == 0..(args.threads - 1)
Finished(w) == wpc[w] \in {"done", "failed"}

Init ==
  /\ args \in [threads : 0..MaxThreads, iterations : 0..MaxIterations,
               keys : 0..MaxKeys, read_ratio : ReadRatios, seed : Seeds,
               model : Models, shards : 0..MaxShards]
  /\ mpc = "start"
  /\ per = 0
  /\ i = 0
  /\ shards = NewShards(0)
  /\ locks = NewLocks(0)
  /\ out = <<>>
  /\ err = <<>>
  /\ status = -1
  /\ wpc = [w \in Workers |-> "new"]
  /\ rnd = [w \in Workers |-> Mask64(0)]
  /\ left = [w \in Workers |-> 0]
  /\ wk = [w \in Workers |-> 0]
  /\ wr = [w \in Workers |-> 0]
  /\ ws = [w \in Workers |-> 0]
  /\ tmp = [w \in Workers |-> 0]
  /\ held = [w \in Workers |-> {}]
  /\ ops = [w \in Workers |-> <<>>]
  /\ draws = [w \in Workers |-> 0]
  /\ queue = <<>>
  /\ proc = [p \in Workers |-> -1]
  /\ ran = [p \in Workers |-> <<>>]
  /\ pshards = [w \in Workers |-> NewShards(0)]
  /\ pidx = [w \in Workers |-> 0]

\* ------------------------------------------------------------- main
\* a loop that runs one index too far
PrefillMoreInclusive(idx) == idx <= args.keys

\* "for i in range(keys)" has another turn to make at index idx
PrefillMore(idx) == idx < args.keys

\* An exception nobody catches ends main: traceback on the error stream, status 1.
Crash(what) ==
  /\ mpc' = "exit"
  /\ err' = Append(err, what)
  /\ status' = 1
  /\ out' = out

\* per = args.iterations // args.threads
ComputePer ==
  /\ mpc = "start"
  /\ IF args.threads = 0
       THEN Crash("ZeroDivisionError") /\ per' = per
       ELSE /\ per' = args.iterations \div args.threads
            /\ mpc' = "model"
            /\ UNCHANGED io
  /\ UNCHANGED <<args, i, shards, locks, wstate, tlocals, wlog, pool>>

\* the store built and the threads started at once, the prefill loop left out
BuildSharedNoPrefill ==
  /\ mpc = "model"
  /\ args.model = "threads"
  /\ shards' = NewShards(args.shards)
  /\ locks' = NewLocks(args.shards)
  /\ i' = 0
  /\ mpc' = "spawn"
  /\ UNCHANGED <<args, per, io, wstate, tlocals, wlog, pool>>

\* if args.model == "threads": the store and its locks are built
BuildShared ==
  /\ mpc = "model"
  /\ args.model = "threads"
  /\ shards' = NewShards(args.shards)
  /\ locks' = NewLocks(args.shards)
  /\ i' = 0
  /\ mpc' = "prefill"
  /\ UNCHANGED <<args, per, io, wstate, tlocals, wlog, pool>>

\* for i in range(args.keys): shards[i % args.shards][i] = 0
PrefillShared ==
  /\ mpc = "prefill"
  /\ IF PrefillMore(i)
       THEN IF args.shards = 0
              THEN Crash("ZeroDivisionError") /\ UNCHANGED <<i, shards>>
              ELSE /\ shards' = [shards EXCEPT ![route(i, args.shards)] = Put(@, i, 0)]
                   /\ i' = i + 1
                   /\ UNCHANGED <<mpc, io>>
       ELSE /\ mpc' = "spawn"
            /\ i' = 0
            /\ UNCHANGED <<shards, io>>
  /\ UNCHANGED <<args, per, locks, wstate, tlocals, wlog, pool>>

\* for i in range(args.threads): t = threading.Thread(...); t.start()
\* The new thread runs worker_thread's first two lines.
StartThread ==
  /\ mpc = "spawn"
  /\ IF i < args.threads
       THEN /\ wpc' = [wpc EXCEPT ![i] = "draw"]
            /\ rnd' = [rnd EXCEPT ![i] = splitmix64(args.seed + i)]
            /\ left' = [left EXCEPT ![i] = per]
            /\ i' = i + 1
            /\ mpc' = mpc
       ELSE /\ mpc' = "join"
            /\ i' = 0
            /\ UNCHANGED wstate
  /\ UNCHANGED <<args, per, shards, locks, io, tlocals, wlog, pool>>

\* for t in ts: t.join()
JoinThread ==
  /\ mpc = "join"
  /\ IF i < args.threads
       THEN /\ Finished(i)
            /\ i' = i + 1
            /\ mpc' = mpc
       ELSE /\ mpc' = "report"
            /\ i' = i
  /\ UNCHANGED <<args, per, shards, locks, io, wstate, tlocals, wlog, pool>>

\* elif args.model == "processes": pool.map hands the pool one task per worker
\* (chunksize 1 for as many tasks as processes)
MapTasks ==
  /\ mpc = "model"
  /\ args.model = "processes"
  /\ queue' = [n \in 1..args.threads |-> n - 1]
  /\ wpc' = [w \in Workers |-> "queued"]
  /\ mpc' = "map"
  /\ UNCHANGED <<args, per, i, shards, locks, io, rnd, left, tlocals, wlog,
                 proc, ran, pshards, pidx>>

\* a map that drops the tasks' exceptions
MapReturnsQuietly ==
  /\ mpc = "map"
  /\ \A w \in Workers : Finished(w)
  /\ mpc' = "report" /\ UNCHANGED io
  /\ UNCHANGED <<args, per, i, shards, locks, wstate, tlocals, wlog, pool>>

\* pool.map returns once every task has ended, and raises a task's exception
MapReturns ==
  /\ mpc = "map"
  /\ \A w \in Workers : Finished(w)
  /\ IF \E w \in Workers : wpc[w] = "failed"
       THEN Crash("ZeroDivisionError")
       ELSE mpc' = "report" /\ UNCHANGED io
  /\ UNCHANGED <<args, per, i, shards, locks, wstate, tlocals, wlog, pool>>

\* the diagnostic without the exit
UnknownModelNoExit ==
  /\ mpc = "model"
  /\ args.model \notin {"threads", "processes"}
  /\ err' = Append(err, "unknown model")
  /\ mpc' = "report"
  /\ UNCHANGED <<args, per, i, shards, locks, out, status, wstate, tlocals, wlog, pool>>

\* else: print("unknown model", file=sys.stderr); sys.exit(1)
UnknownModel ==
  /\ mpc = "model"
  /\ args.model \notin {"threads", "processes"}
  /\ Crash("unknown model")
  /\ UNCHANGED <<args, per, i, shards, locks, wstate, tlocals, wlog, pool>>

\* the record main prints
Record ==
  [model |-> args.model, threads |-> args.threads, iterations |-> per * args.threads,
   keys |-> args.keys, read_ratio |-> args.read_ratio, seed |-> args.seed]

\* print(json.dumps(res)), and main returns
Report ==
  /\ mpc = "report"
  /\ out' = Append(out, Record)
  /\ status' = 0
  /\ mpc' = "exit"
  /\ err' = err
  /\ UNCHANGED <<args, per, i, shards, locks, wstate, tlocals, wlog, pool>>

\* ---------------------------------------------------------- workers
\* a key drawn from 0..keys, one past the last key
DrawPairWide(x, keys) ==
  The({The({[k |-> Mod64(d1[1], keys + 1), r |-> Mod64(d2[1], 1000), rnd |-> d2[2]] :
              d2 \in {NextDraw(d1[2])}}) :
         d1 \in {NextDraw(x)}})

\* the two draws in the other order
DrawPairKindFirst(x, keys) ==
  The({The({[k |-> Mod64(d2[1], keys), r |-> Mod64(d1[1], 1000), rnd |-> d2[2]] :
              d2 \in {NextDraw(d1[2])}}) :
         d1 \in {NextDraw(x)}})

\* k = int(next(rnd) % keys); r = int(next(rnd) % 1000), for keys >= 1:
\* the key draw first, then the kind draw
DrawPair(x, keys) ==
  The({The({[k |-> Mod64(d1[1], keys), r |-> Mod64(d2[1], 1000), rnd |-> d2[2]] :
              d2 \in {NextDraw(d1[2])}}) :
         d1 \in {NextDraw(x)}})

\* the comparison the wrong way round
KindSwapped(r, reads) == IF r < reads THEN "write" ELSE "read"

\* if r < reads: a read, else a write
Kind(r, reads) == IF r < reads THEN "read" ELSE "write"

\* one lock for the whole store: free only while no shard's lock is held
CanAcquireGlobal(s) == \A t \in DOMAIN locks : ~locks[t]

\* a with block that does not wait for the lock
CanAcquireAlways(s) == TRUE

\* "with locks[s]:" enters only when the lock is free
CanAcquire(s) == ~locks[s]

\* the dict lookup a write makes before it stores
WriteBase(d, k) == Get(d, k, 0)

\* The top of worker_thread's loop: the loop ends, or the two draws are made and
\* the shard is chosen.  keys = 0 raises ZeroDivisionError after the first draw,
\* which ends the thread (its traceback goes to the error stream).
ThreadDraw(t) ==
  /\ wpc[t] = "draw"
  /\ IF left[t] = 0
       THEN /\ wpc' = [wpc EXCEPT ![t] = "done"]
            /\ UNCHANGED <<rnd, left, wk, wr, ws, draws, err>>
       ELSE IF args.keys = 0
         THEN /\ wpc' = [wpc EXCEPT ![t] = "failed"]
              /\ rnd' = [rnd EXCEPT ![t] = NextDraw(@)[2]]
              /\ draws' = [draws EXCEPT ![t] = @ + 1]
              /\ err' = Append(err, "ZeroDivisionError")
              /\ UNCHANGED <<left, wk, wr, ws>>
         ELSE LET d == DrawPair(rnd[t], args.keys)
              IN  /\ rnd' = [rnd EXCEPT ![t] = d.rnd]
                  /\ draws' = [draws EXCEPT ![t] = @ + 2]
                  /\ wk' = [wk EXCEPT ![t] = d.k]
                  /\ wr' = [wr EXCEPT ![t] = d.r]
                  /\ ws' = [ws EXCEPT ![t] = route(d.k, args.shards)]
                  /\ left' = [left EXCEPT ![t] = @ - 1]
                  /\ wpc' = [wpc EXCEPT ![t] = "acquire"]
                  /\ err' = err
  /\ UNCHANGED <<margs, mpc, shards, locks, out, status, tmp, held, ops, pool>>

\* with locks[s]: the lock is taken
ThreadAcquire(t) ==
  /\ wpc[t] = "acquire"
  /\ CanAcquire(ws[t])
  /\ locks' = [locks EXCEPT ![ws[t]] = TRUE]
  /\ held' = [held EXCEPT ![t] = @ \cup {ws[t]}]
  /\ wpc' = [wpc EXCEPT ![t] =
               IF Kind(wr[t], IntReads(args.read_ratio)) = "read" THEN "read" ELSE "get"]
  /\ UNCHANGED <<margs, mpc, shards, io, rnd, left, wk, wr, ws, tmp, wlog, pool>>

\* _ = shards[s].get(k, 0)
ThreadRead(t) ==
  /\ wpc[t] = "read"
  /\ tmp' = [tmp EXCEPT ![t] = Get(shards[ws[t]], wk[t], 0)]
  /\ ops' = [ops EXCEPT ![t] = Append(@, <<wk[t], "read">>)]
  /\ wpc' = [wpc EXCEPT ![t] = "release"]
  /\ UNCHANGED <<margs, mpc, shards, locks, io, rnd, left, wk, wr, ws, held, draws, pool>>

\* shards[s].get(k, 0), the right-hand side of the increment
ThreadGet(t) ==
  /\ wpc[t] = "get"
  /\ tmp' = [tmp EXCEPT ![t] = WriteBase(shards[ws[t]], wk[t])]
  /\ wpc' = [wpc EXCEPT ![t] = "store"]
  /\ UNCHANGED <<margs, mpc, shards, locks, io, rnd, left, wk, wr, ws, held, wlog, pool>>

\* shards[s][k] = <the value read> + 1
ThreadStore(t) ==
  /\ wpc[t] = "store"
  /\ shards' = [shards EXCEPT ![ws[t]] = Put(@, wk[t], tmp[t] + 1)]
  /\ ops' = [ops EXCEPT ![t] = Append(@, <<wk[t], "write">>)]
  /\ wpc' = [wpc EXCEPT ![t] = "release"]
  /\ UNCHANGED <<margs, mpc, locks, io, rnd, left, tlocals, draws, pool>>

\* a with block left without the lock being released
ThreadReleaseKeeps(t) ==
  /\ wpc[t] = "release"
  /\ locks' = locks
  /\ held' = [held EXCEPT ![t] = @ \ {ws[t]}]
  /\ wpc' = [wpc EXCEPT ![t] = "draw"]
  /\ UNCHANGED <<margs, mpc, shards, io, rnd, left, wk, wr, ws, tmp, wlog, pool>>

\* the end of the with block: the lock is released
ThreadRelease(t) ==
  /\ wpc[t] = "release"
  /\ locks' = [locks EXCEPT ![ws[t]] = FALSE]
  /\ held' = [held EXCEPT ![t] = @ \ {ws[t]}]
  /\ wpc' = [wpc EXCEPT ![t] = "draw"]
  /\ UNCHANGED <<margs, mpc, shards, io, rnd, left, wk, wr, ws, tmp, wlog, pool>>

\* one store for all the tasks: taking a task builds it anew for every worker
PoolTakeShared(p) ==
  /\ mpc = "map"
  /\ proc[p] = -1
  /\ queue # <<>>
  /\ ran[p] = <<>> => \A q \in 0..(p - 1) : ran[q] # <<>>
  /\ LET w == Head(queue)
     IN  /\ proc' = [proc EXCEPT ![p] = w]
         /\ ran' = [ran EXCEPT ![p] = Append(@, w)]
         /\ pshards' = [v \in DOMAIN pshards |-> NewShards(args.shards)]
         /\ pidx' = [pidx EXCEPT ![w] = 0]
         /\ wpc' = [wpc EXCEPT ![w] = "prefill"]
  /\ queue' = Tail(queue)
  /\ UNCHANGED <<margs, mpc, shards, locks, io, rnd, left, tlocals, wlog>>

\* An idle pool process takes the next task and runs worker_process up to its
\* prefill loop: shards = [dict() for _ in range(shardsN)].  The pool's processes
\* are interchangeable, so of those that have not run a task yet only the one
\* with the least index is explored; one that has run a task may take another.
PoolTake(p) ==
  /\ mpc = "map"
  /\ proc[p] = -1
  /\ queue # <<>>
  /\ ran[p] = <<>> => \A q \in 0..(p - 1) : ran[q] # <<>>
  /\ LET w == Head(queue)
     IN  /\ proc' = [proc EXCEPT ![p] = w]
         /\ ran' = [ran EXCEPT ![p] = Append(@, w)]
         /\ pshards' = [pshards EXCEPT ![w] = NewShards(args.shards)]
         /\ pidx' = [pidx EXCEPT ![w] = 0]
         /\ wpc' = [wpc EXCEPT ![w] = "prefill"]
  /\ queue' = Tail(queue)
  /\ UNCHANGED <<margs, mpc, shards, locks, io, rnd, left, tlocals, wlog>>

\* for i in range(keys): shards[i % shardsN][i] = 0; then the generator is made.
\* A task that raises ends, and its process is free for the next task.
ProcessPrefill(p) ==
  /\ proc[p] # -1
  /\ LET w == proc[p]
     IN  /\ wpc[w] = "prefill"
         /\ IF PrefillMore(pidx[w])
              THEN IF args.shards = 0
                     THEN /\ wpc' = [wpc EXCEPT ![w] = "failed"]
                          /\ proc' = [proc EXCEPT ![p] = -1]
                          /\ UNCHANGED <<pshards, pidx, rnd, left>>
                     ELSE /\ pshards' = [pshards EXCEPT
                                ![w][route(pidx[w], args.shards)] = Put(@, pidx[w], 0)]
                          /\ pidx' = [pidx EXCEPT ![w] = @ + 1]
                          /\ UNCHANGED <<wpc, proc, rnd, left>>
              ELSE /\ rnd' = [rnd EXCEPT ![w] = splitmix64(args.seed + w)]
                   /\ left' = [left EXCEPT ![w] = per]
                   /\ wpc' = [wpc EXCEPT ![w] = "loop"]
                   /\ UNCHANGED <<proc, pshards, pidx>>
  /\ UNCHANGED <<margs, mpc, shards, locks, io, tlocals, wlog, queue, ran>>

\* One turn of worker_process's loop (the store is private, so the turn is one
\* step), or "return 0" when the loop has ended.
ProcessStep(p) ==
  /\ proc[p] # -1
  /\ LET w == proc[p]
     IN  /\ wpc[w] = "loop"
         /\ IF left[w] = 0
              THEN /\ wpc' = [wpc EXCEPT ![w] = "done"]
                   /\ proc' = [proc EXCEPT ![p] = -1]
                   /\ UNCHANGED <<rnd, left, pshards, wlog>>
              ELSE IF args.keys = 0
                THEN /\ wpc' = [wpc EXCEPT ![w] = "failed"]
                     /\ proc' = [proc EXCEPT ![p] = -1]
                     /\ rnd' = [rnd EXCEPT ![w] = NextDraw(@)[2]]
                     /\ draws' = [draws EXCEPT ![w] = @ + 1]
                     /\ UNCHANGED <<left, pshards, ops>>
                ELSE LET d == DrawPair(rnd[w], args.keys)
                         s == route(d.k, args.shards)
                         kind == Kind(d.r, IntReads(args.read_ratio))
                     IN  /\ rnd' = [rnd EXCEPT ![w] = d.rnd]
                         /\ draws' = [draws EXCEPT ![w] = @ + 2]
                         /\ left' = [left EXCEPT ![w] = @ - 1]
                         /\ ops' = [ops EXCEPT ![w] = Append(@, <<d.k, kind>>)]
                         /\ pshards' = IF kind = "read" THEN pshards
                                       ELSE [pshards EXCEPT ![w][s] =
                                               Put(@, d.k, WriteBase(@, d.k) + 1)]
                         /\ UNCHANGED <<wpc, proc>>
  /\ UNCHANGED <<margs, mpc, shards, locks, io, tlocals, queue, ran, pidx>>

\* ------------------------------------------------------ specification
Next ==
  \/ ComputePer
  \/ BuildShared
  \/ PrefillShared
  \/ StartThread
  \/ JoinThread
  \/ MapTasks
  \/ MapReturns
  \/ UnknownModel
  \/ Report
  \/ \E t \in Workers : ThreadDraw(t)
  \/ \E t \in Workers : ThreadAcquire(t)
  \/ \E t \in Workers : ThreadRead(t)
  \/ \E t \in Workers : ThreadGet(t)
  \/ \E t \in Workers : ThreadStore(t)
  \/ \E t \in Workers : ThreadRelease(t)
  \/ \E p \in Workers : PoolTake(p)
  \/ \E p \in Workers : ProcessPrefill(p)
  \/ \E p \in Workers : ProcessStep(p)

Spec == Init /\ [][Next]_vars

\* ----------------------------------------------------------- claims
\* the sum of f[x] over the x in S
RECURSIVE SumOf(_, _)
SumOf(S, f) ==
  IF S = {} THEN 0 ELSE LET x == CHOOSE y \in S : TRUE IN f[x] + SumOf(S \ {x}, f)

\* how many writes to key k worker w has applied
WritesOf(w, k) == Cardinality({n \in 1..Len(ops[w]) : ops[w][n] = <<k, "write">>})
TotalWrites(k) == SumOf(Workers, [w \in Workers |-> WritesOf(w, k)])
AllWrites ==
  SumOf(Workers,
        [w \in Workers |-> Cardinality({n \in 1..Len(ops[w]) : ops[w][n][2] = "write"})])

\* the sum of the counters a store holds
SumCounters(st) ==
  SumOf(DOMAIN st, [s \in DOMAIN st |-> SumOf(DOMAIN st[s], st[s])])

\* the threads model's workers have all been started and have all ended
ThreadsAllEnded ==
  /\ args.model = "threads"
  /\ mpc \in {"join", "report"} \/ (mpc = "exit" /\ status = 0)
  /\ \A w \in Workers : Finished(w)

\* C1: no lost updates in the threads model: once every worker has ended, the
\* counter of each key is the number of writes the workers applied to it, and
\* the counters sum to the number of writes applied.
C1_NoLostUpdates ==
  ThreadsAllEnded =>
    /\ \A k \in 0..(args.keys - 1) :
         Get(shards[route(k, args.shards)], k, 0) = TotalWrites(k)
    /\ SumCounters(shards) = AllWrites

\* two workers have written the same key, and all have ended
C1_Witness ==
  /\ ThreadsAllEnded
  /\ \E k \in 0..(args.keys - 1) : \E v, w \in Workers :
       v # w /\ WritesOf(v, k) >= 1 /\ WritesOf(w, k) >= 1

\* C2: mutual exclusion per shard in the threads model: no lock is held by two
\* workers, a lock is locked exactly while a worker holds it, and a worker that
\* reads, or is between the lookup and the store of an increment, holds the lock
\* of the shard it accesses.
C2_MutualExclusion ==
  args.model = "threads" =>
    /\ \A s \in DOMAIN locks :
         /\ Cardinality({w \in Workers : s \in held[w]}) <= 1
         /\ locks[s] <=> \E w \in Workers : s \in held[w]
    /\ \A w \in Workers :
         wpc[w] \in {"read", "get", "store", "release"} => ws[w] \in held[w]

\* one worker is inside an increment while another waits for the same lock
C2_Witness ==
  \E v, w \in Workers :
    /\ wpc[v] = "store"
    /\ wpc[w] = "acquire"
    /\ ws[v] = ws[w]

\* C3: routing is stable: in both models every key a store holds is in shard
\* k mod S and in no other, and a worker thread's access to key k goes to shard
\* k mod S.
KeysRouted(st) ==
  /\ \A s \in DOMAIN st : \A k \in DOMAIN st[s] : s = k % args.shards
  /\ \A s1, s2 \in DOMAIN st : s1 # s2 => DOMAIN st[s1] \cap DOMAIN st[s2] = {}

C3_RoutingStable ==
  /\ KeysRouted(shards)
  /\ \A w \in Workers : KeysRouted(pshards[w])
  /\ \A w \in Workers :
       wpc[w] \in {"acquire", "read", "get", "store", "release"} =>
         ws[w] = wk[w] % args.shards

\* a worker has incremented a key of the second shard of two
C3_Witness ==
  /\ args.shards = 2
  /\ \/ DOMAIN shards = 0..1 /\ \E k \in DOMAIN shards[1] : shards[1][k] >= 1
     \/ \E w \in Workers : DOMAIN pshards[w] = 0..1 /\
          \E k \in DOMAIN pshards[w][1] : pshards[w][1][k] >= 1

\* the number of operations the command line gives each worker
PerWorker == args.iterations \div args.threads

\* C4: the record's iterations field is worker_count * (iterations //
\* worker_count), and that many operations were executed, per by each worker.
C4_IterationsExecuted ==
  out # <<>> =>
    /\ out[1].iterations = args.threads * PerWorker
    /\ \A w \in Workers : Len(ops[w]) = PerWorker
    /\ SumOf(Workers, [w \in Workers |-> Len(ops[w])]) = out[1].iterations

\* the store prefill(K) builds with S shards, written out directly
Prefilled(K, S) ==
  [s \in 0..(S - 1) |-> [k \in {j \in 0..(K - 1) : j % S = s} |-> 0]]

\* main has prefilled the shared store
SharedPrefilled ==
  /\ args.model = "threads"
  /\ mpc \in {"spawn", "join", "report"} \/ (mpc = "exit" /\ status = 0)

\* worker w's process has prefilled its private store
PrivatePrefilled(w) == args.model = "processes" /\ wpc[w] \in {"loop", "done"}

\* the store worker w operates on
StoreOf(w) == IF args.model = "threads" THEN shards ELSE pshards[w]

\* the counter store st holds for key k
CounterIn(st, k) == Get(st[k % args.shards], k, 0)

\* the counter worker w's store holds for key k
Counter(w, k) == CounterIn(StoreOf(w), k)

\* C5 (states): with read ratio 1.0 every operation applied is a read and a
\* prefilled store is still as prefill left it; with read ratio 0.0 every
\* operation applied is a write.
C5_States ==
  /\ args.read_ratio = RatioDen =>
       /\ \A w \in Workers : \A n \in 1..Len(ops[w]) : ops[w][n][2] = "read"
       /\ SharedPrefilled => shards = Prefilled(args.keys, args.shards)
       /\ \A w \in Workers :
            PrivatePrefilled(w) => pshards[w] = Prefilled(args.keys, args.shards)
  /\ args.read_ratio = 0 =>
       \A w \in Workers : \A n \in 1..Len(ops[w]) : ops[w][n][2] = "write"

\* C5 (steps): with read ratio 0.0 the step that applies a write to key k leaves
\* k's counter one higher than it was.
C5_Steps ==
  args.read_ratio = 0 =>
    \A w \in Workers :
      ops'[w] # ops[w] =>
        LET k == ops'[w][Len(ops'[w])][1]
        IN  CounterIn(StoreOf(w)', k) = CounterIn(StoreOf(w), k) + 1

\* C5: the read-ratio boundaries, 1.0 all reads and the store as prefilled,
\* 0.0 all writes and each write an increment by one.
C5_ReadRatioBoundaries == []C5_States /\ [][C5_Steps]_vars

\* a run of read ratio 1.0 over two keys has ended, a worker having applied two
\* operations
C5_Witness ==
  /\ args.read_ratio = RatioDen
  /\ args.keys = 2
  /\ mpc = "exit" /\ status = 0
  /\ \E w \in Workers : Len(ops[w]) >= 2

\* C6: a model name other than threads and processes ends the run with a
\* non-zero status: no record is printed, no store is built, no worker started.
C6_UnknownModelFatal ==
  args.model \notin {"threads", "processes"} =>
    /\ out = <<>>
    /\ status # 0
    /\ mpc = "exit" => status = 1
    /\ mpc \in {"start", "model", "exit"}
    /\ shards = NewShards(0) /\ locks = NewLocks(0)
    /\ queue = <<>>
    /\ \A w \in Workers : wpc[w] = "new" /\ pshards[w] = NewShards(0) /\ ops[w] = <<>>

\* the run of an unknown model has ended on its diagnostic
C6_Witness ==
  /\ args.model = "gevent"
  /\ args.threads >= 1
  /\ mpc = "exit"
  /\ status = 1
  /\ err = <<"unknown model">>

\* C7: keys = 0 with at least one iteration per worker is fatal in both models:
\* the status is non-zero and no record is printed.
C7_ZeroKeysFatal ==
  (/\ args.model \in {"threads", "processes"}
   /\ args.keys = 0
   /\ args.threads >= 1
   /\ PerWorker >= 1)
  => out = <<>> /\ status # 0

\* C8: a prefilled store no worker has operated on holds exactly the keys
\* 0..K-1, each 0, key i in shard i mod S; a run of no iterations ends with it.
C8_Prefill ==
  /\ (SharedPrefilled /\ \A w \in Workers : ops[w] = <<>>) =>
       shards = Prefilled(args.keys, args.shards)
  /\ \A w \in Workers :
       (PrivatePrefilled(w) /\ ops[w] = <<>>) =>
         pshards[w] = Prefilled(args.keys, args.shards)
  /\ (args.threads >= 1 /\ PerWorker = 0) => \A w \in Workers : ops[w] = <<>>

\* a run of no iterations over two keys and two shards has ended, its store
\* prefilled
C8_Witness ==
  /\ args.keys = 2 /\ args.shards = 2
  /\ args.threads >= 1 /\ PerWorker = 0
  /\ mpc = "exit" /\ status = 0
  /\ \/ SharedPrefilled /\ DOMAIN shards[0] = {0} /\ DOMAIN shards[1] = {1}
     \/ \A w \in Workers : PrivatePrefilled(w) /\ DOMAIN pshards[w][1] = {1}

\* The generator written out in closed form: after d draws the counter of
\* splitmix64(s) is s + d * 0x9E3779B97F4A7C15 (mod 2^64), and draw d is the
\* mix of it.
CounterAfter(s, d) == Add64(Mask64(s), Mul64(Mask64(d), GAMMA))
DrawNo(s, d) == Mix(CounterAfter(s, d))

\* operation n of the worker seeded s: key from draw 2n-1, kind from draw 2n
OperationNo(s, n) ==
  <<Mod64(DrawNo(s, 2 * n - 1), args.keys),
    Kind(Mod64(DrawNo(s, 2 * n), 1000), IntReads(args.read_ratio))>>

\* C9 (states): each operation has taken two draws (the last of them perhaps not
\* applied yet); a worker that failed applied none.
C9_States ==
  \A w \in Workers :
    /\ wpc[w] # "failed" => draws[w] \in {2 * Len(ops[w]), 2 * Len(ops[w]) + 2}
    /\ wpc[w] = "failed" => draws[w] <= 1 /\ ops[w] = <<>>

\* C9 (steps): the n-th operation worker w applies is made of draws 2n-1 (key)
\* and 2n (kind) of the generator of seed + w, and w's generator is advanced by
\* w's draws alone.
C9_Steps ==
  \A w \in Workers :
    /\ ops'[w] # ops[w] =>
         /\ Len(ops'[w]) = Len(ops[w]) + 1
         /\ ops'[w][Len(ops'[w])] = OperationNo(args.seed + w, Len(ops[w]) + 1)
    /\ draws'[w] # draws[w] => rnd'[w] = CounterAfter(args.seed + w, draws'[w])
    /\ (draws'[w] = draws[w] /\ draws[w] > 0) => rnd'[w] = rnd[w]

\* C9: the operations worker w applies are those of seed + w, the key count and
\* the read ratio alone, in both models and whatever the interleaving, two
\* draws to each operation, the key draw first, from a generator of w's own.
C9_WorkerDeterminism == []C9_States /\ [][C9_Steps]_vars

\* two workers have each applied two operations, and the second has applied
\* operations the first has not
C9_Witness ==
  \E v, w \in Workers :
    /\ v # w
    /\ Len(ops[v]) >= 2 /\ Len(ops[w]) >= 2
    /\ ops[v] # ops[w]

\* a worker is running: started and not ended
Running(w) == wpc[w] \notin {"new", "queued", "done", "failed"}

\* C10: the record is printed only after every worker has completed its per
\* iterations, nothing is printed while a worker runs, and a successful run
\* prints exactly one record.
C10_Barrier ==
  /\ out # <<>> =>
       \A w \in Workers : wpc[w] = "done" /\ left[w] = 0 /\ Len(ops[w]) = per
  /\ (\E w \in Workers : Running(w)) => out = <<>>
  /\ Len(out) <= 1
  /\ status = 0 <=> Len(out) = 1

\* the keys store st holds, over all its shards
KeysOf(st) == UNION {DOMAIN st[s] : s \in DOMAIN st}

\* C11: prefill precedes all worker activity.  Threads model: a worker thread
\* that has been started finds main past its prefill loop and every key
\* 0..K-1 in the shared store.  Processes model: a worker that has reached its
\* loop, drawn a number or applied an operation has run its own prefill to the
\* end and holds every key 0..K-1 in its private store.
C11_PrefillFirst ==
  /\ args.model = "threads" =>
       \A w \in Workers :
         wpc[w] # "new" =>
           /\ mpc \in {"spawn", "join", "report", "exit"}
           /\ 0..(args.keys - 1) \subseteq KeysOf(shards)
  /\ args.model = "processes" =>
       \A w \in Workers :
         (wpc[w] \in {"loop", "done"} \/ ops[w] # <<>> \/ draws[w] > 0) =>
           /\ pidx[w] = args.keys
           /\ 0..(args.keys - 1) \subseteq KeysOf(pshards[w])

\* a worker applies an operation to a store of two keys: a thread about to
\* store under its lock, or a process with an operation behind it
C11_Witness ==
  /\ args.keys = 2
  /\ \E w \in Workers :
       \/ args.model = "threads" /\ wpc[w] = "store"
       \/ args.model = "processes" /\ wpc[w] = "loop" /\ ops[w] # <<>>

\* C12: fine-grained lock discipline of the threads model.  A worker holds at
\* most one shard lock, and only the lock of the shard of its current key; it
\* holds none between two operations (when it draws, waits for a lock or has
\* ended).  There is no global lock: a worker that waits for the lock of shard
\* s and cannot take it is kept out by a worker that holds the lock of s
\* itself, never by one holding the lock of another shard.
C12_LockDiscipline ==
  args.model = "threads" =>
    \A w \in Workers :
      /\ Cardinality(held[w]) <= 1
      /\ held[w] \subseteq {ws[w]}
      /\ wpc[w] \in {"new", "draw", "acquire", "done", "failed"} => held[w] = {}
      /\ wpc[w] \in {"read", "get", "store", "release"} => held[w] = {ws[w]}
      /\ (wpc[w] = "acquire" /\ ~CanAcquire(ws[w])) =>
           \E v \in Workers \ {w} : ws[w] \in held[v]
      /\ (wpc[w] = "acquire" /\ \A v \in Workers \ {w} : ws[w] \notin held[v]) =>
           ENABLED ThreadAcquire(w)

\* one worker waits for the lock of a shard while the other is inside the lock
\* of the other shard
C12_Witness ==
  /\ args.model = "threads"
  /\ \E w, v \in Workers :
       /\ w # v
       /\ held[v] # {} /\ wpc[w] = "acquire"
       /\ ws[w] \notin held[v]

\* the store that applying worker w's own operations, as logged, to a freshly
\* prefilled store gives: every key at the number of w's writes to it
OwnStore(w) ==
  [s \in 0..(args.shards - 1) |->
     [k \in {j \in 0..(args.keys - 1) : j % args.shards = s} |-> WritesOf(w, k)]]

\* C13 (states): in the processes model a worker's store, from the end of its
\* prefill on, is the freshly prefilled store with the worker's own operations
\* applied, whatever the other workers have done; so is its final store.
C13_States ==
  \A w \in Workers : PrivatePrefilled(w) => pshards[w] = OwnStore(w)

\* C13 (steps): a step changes the store of at most one worker, that worker
\* is one a pool process runs or takes up, and an operation logged by worker w
\* leaves the store of every other worker as it was.
C13_Steps ==
  args.model = "processes" =>
    \A w \in Workers :
      /\ pshards'[w] # pshards[w] =>
           /\ \E p \in Workers : proc[p] = w \/ proc'[p] = w
           /\ \A v \in Workers \ {w} : pshards'[v] = pshards[v]
      /\ ops'[w] # ops[w] =>
           \A v \in Workers \ {w} : pshards'[v] = pshards[v] /\ ops'[v] = ops[v]

\* C13: isolation of the worker processes' stores
C13_Isolation == []C13_States /\ [][C13_Steps]_vars

\* two worker processes have ended, each having written to its own store
C13_Witness ==
  /\ args.model = "processes" /\ args.threads = 2
  /\ \A w \in Workers :
       /\ wpc[w] = "done"
       /\ \E k \in 0..(args.keys - 1) : Counter(w, k) >= 1

\* C14: in the processes model no pool process runs the loop of more than one
\* worker index: every pool process has run at most one task.
C14_SeparateProcesses ==
  args.model = "processes" => \A p \in Workers : Len(ran[p]) <= 1

\* C15: a worker failure in the processes model is fatal to the run.  Once a
\* worker task has failed no record is printed, and the run ends with status 1;
\* a record is printed only when every worker task has returned (0).
C15_WorkerFailureFatal ==
  args.model = "processes" =>
    /\ (\E w \in Workers : wpc[w] = "failed") =>
         /\ out = <<>>
         /\ status # 0
         /\ mpc = "exit" => status = 1
    /\ out # <<>> => \A w \in Workers : wpc[w] = "done"

\* a processes run has ended with status 1 and no record after a worker task
\* failed
C15_Witness ==
  /\ args.model = "processes"
  /\ \E w \in Workers : wpc[w] = "failed"
  /\ mpc = "exit" /\ status = 1 /\ out = <<>>

\* ---------------------------------------------------- fair scheduling
\* a step of the main thread
MainNext ==
  \/ ComputePer
  \/ BuildShared
  \/ PrefillShared
  \/ StartThread
  \/ JoinThread
  \/ MapTasks
  \/ MapReturns
  \/ UnknownModel
  \/ Report

\* a step of worker thread t
ThreadNext(t) ==
  /\ t \in Workers
  /\ \/ ThreadDraw(t)
     \/ ThreadAcquire(t)
     \/ ThreadRead(t)
     \/ ThreadGet(t)
     \/ ThreadStore(t)
     \/ ThreadRelease(t)

\* a step of pool process p
ProcessNext(p) ==
  /\ p \in Workers
  /\ \/ PoolTake(p)
     \/ ProcessPrefill(p)
     \/ ProcessStep(p)

\* The scheduler runs every thread and process that can run, and a thread that
\* waits for a lock which is free again and again gets it.
Fairness ==
  /\ WF_vars(MainNext)
  /\ \A t \in 0..(MaxThreads - 1) :
       /\ WF_vars(ThreadNext(t))
       /\ SF_vars(t \in Workers /\ ThreadAcquire(t))
       /\ WF_vars(ProcessNext(t))

FairSpec == Init /\ [][Next]_vars /\ Fairness

\* a threads run of at least one worker over at least one key and one shard
ThreadsRunnable ==
  /\ args.model = "threads"
  /\ args.threads >= 1 /\ args.keys >= 1 /\ args.shards >= 1

\* the threads run has ended in full: every worker has completed its per
\* iterations, every join has returned and the record is printed
ThreadsCompleted ==
  /\ \A w \in Workers : wpc[w] = "done" /\ left[w] = 0 /\ Len(ops[w]) = per
  /\ mpc = "exit" /\ status = 0 /\ Len(out) = 1

\* C16 (states): no state of such a run before the record is printed is a
\* deadlock: some step can be taken.
C16_States == (ThreadsRunnable /\ out = <<>>) => ENABLED Next

\* C16: deadlock freedom and termination of the threads model.  For keys >= 1
\* and shards >= 1 no state before the record is a deadlock, and under fair
\* scheduling and fair lock acquisition every worker completes its per
\* iterations, every join returns and the record is printed.
C16_ThreadsTerminate == []C16_States /\ (ThreadsRunnable ~> ThreadsCompleted)

\* a threads run of two workers, two iterations each, has ended in full
C16_Witness ==
  /\ ThreadsRunnable /\ ThreadsCompleted
  /\ args.threads = 2 /\ per = 2

\* the writes to key k among the per operations of worker w, from the generator
\* in closed form: a function of the command line alone
ExpectedWrites(w, k) ==
  Cardinality({n \in 1..PerWorker : OperationNo(args.seed + w, n) = <<k, "write">>})

\* C17: the final store of the threads model is reproducible and is the sum of
\* the final private stores of the processes model.  Whatever the interleaving,
\* a threads run ends with the counter of each key k at the sum over the
\* workers w of ExpectedWrites(w, k); a worker process w ends with the counter
\* of k at ExpectedWrites(w, k) in its private store.  Both are fixed by the
\* command line, so two runs of one configuration agree key by key.
C17_StoresAgree ==
  /\ ThreadsAllEnded =>
       \A k \in 0..(args.keys - 1) :
         CounterIn(shards, k) =
           SumOf(Workers, [w \in Workers |-> ExpectedWrites(w, k)])
  /\ args.model = "processes" =>
       \A w \in Workers :
         wpc[w] = "done" =>
           \A k \in 0..(args.keys - 1) :
             CounterIn(pshards[w], k) = ExpectedWrites(w, k)

\* a threads run of two workers has ended with both of two keys written, one
\* of them more than once
C17_Witness ==
  /\ ThreadsAllEnded /\ mpc = "exit"
  /\ args.threads = 2 /\ args.keys = 2
  /\ CounterIn(shards, 0) >= 2 /\ CounterIn(shards, 1) >= 1

\* every counter store st holds is >= 0
NonNegative(st) == \A s \in DOMAIN st : \A k \in DOMAIN st[s] : st[s][k] >= 0

\* no counter of store st is lower, and no key is missing, in store nx
NotLowered(st, nx) ==
  \A s \in DOMAIN st :
    \A k \in DOMAIN st[s] :
      s \in DOMAIN nx /\ k \in DOMAIN nx[s] /\ nx[s][k] >= st[s][k]

\* C18 (states): for keys >= 1 and shards >= 1 a prefilled store holds exactly
\* the keys 0..K-1 and no counter below 0; a worker thread that looks a key up
\* finds it in the shard (the default of get is not used); a key no worker has
\* written is at 0.
C18_States ==
  (args.keys >= 1 /\ args.shards >= 1) =>
    /\ SharedPrefilled =>
         /\ KeysOf(shards) = 0..(args.keys - 1)
         /\ NonNegative(shards)
         /\ \A k \in 0..(args.keys - 1) :
              TotalWrites(k) = 0 => CounterIn(shards, k) = 0
         /\ \A w \in Workers :
              wpc[w] \in {"read", "get", "store"} => wk[w] \in DOMAIN shards[ws[w]]
    /\ \A w \in Workers :
         PrivatePrefilled(w) =>
           /\ KeysOf(pshards[w]) = 0..(args.keys - 1)
           /\ NonNegative(pshards[w])
           /\ \A k \in 0..(args.keys - 1) :
                WritesOf(w, k) = 0 => CounterIn(pshards[w], k) = 0

\* C18 (steps): from a prefilled store on, no step lowers a counter or removes
\* a key.
C18_Steps ==
  /\ SharedPrefilled => NotLowered(shards, shards')
  /\ \A w \in Workers : PrivatePrefilled(w) => NotLowered(pshards[w], pshards'[w])

\* C18: the key set of a store never changes after prefill, and its counters
\* are monotone
C18_KeySetFixed == []C18_States /\ [][C18_Steps]_vars

\* a store of two keys after writes: one key written, the other still at 0
C18_Witness ==
  /\ args.keys = 2 /\ args.shards >= 1
  /\ \/ SharedPrefilled /\ CounterIn(shards, 0) >= 1 /\ CounterIn(shards, 1) = 0
     \/ \E w \in Workers :
          PrivatePrefilled(w) /\ CounterIn(pshards[w], 1) >= 1
                              /\ CounterIn(pshards[w], 0) = 0

\* ------------------------------------------- read ratios of any sign
\* --read-ratio is any float (type=float, no range check).  Of the decimal
\* fractions n/RatioDen these run from -0.5 to 1.5; for each of them the float
\* product read_ratio * 1000 truncates to the same integer as the exact one.
WideRatios == {-5000, -5, 0, 5, 5000, 9995, 10000, 15000}

\* the runs of one worker over at least one key and one shard, with any of
\* these read ratios
RatioInit ==
  /\ args \in [threads : {1}, iterations : 1..MaxIterations,
               keys : 1..MaxKeys, read_ratio : WideRatios, seed : Seeds,
               model : {"threads", "processes"}, shards : 1..MaxShards]
  /\ mpc = "start"
  /\ per = 0
  /\ i = 0
  /\ shards = NewShards(0)
  /\ locks = NewLocks(0)
  /\ out = <<>>
  /\ err = <<>>
  /\ status = -1
  /\ wpc = [w \in Workers |-> "new"]
  /\ rnd = [w \in Workers |-> Mask64(0)]
  /\ left = [w \in Workers |-> 0]
  /\ wk = [w \in Workers |-> 0]
  /\ wr = [w \in Workers |-> 0]
  /\ ws = [w \in Workers |-> 0]
  /\ tmp = [w \in Workers |-> 0]
  /\ held = [w \in Workers |-> {}]
  /\ ops = [w \in Workers |-> <<>>]
  /\ draws = [w \in Workers |-> 0]
  /\ queue = <<>>
  /\ proc = [p \in Workers |-> -1]
  /\ ran = [p \in Workers |-> <<>>]
  /\ pshards = [w \in Workers |-> NewShards(0)]
  /\ pidx = [w \in Workers |-> 0]

RatioNext ==
  \/ ComputePer
  \/ BuildShared
  \/ PrefillShared
  \/ StartThread
  \/ JoinThread
  \/ MapTasks
  \/ MapReturns
  \/ Report
  \/ \E t \in Workers : ThreadDraw(t)
  \/ \E t \in Workers : ThreadAcquire(t)
  \/ \E t \in Workers : ThreadRead(t)
  \/ \E t \in Workers : ThreadGet(t)
  \/ \E t \in Workers : ThreadStore(t)
  \/ \E t \in Workers : ThreadRelease(t)
  \/ \E p \in Workers : PoolTake(p)
  \/ \E p \in Workers : ProcessPrefill(p)
  \/ \E p \in Workers : ProcessStep(p)

RatioSpec == RatioInit /\ [][RatioNext]_vars

\* floor(rr * 1000), for the read ratio rr / RatioDen
FloorThreshold(rr) == (rr * 1000) \div RatioDen

\* a threshold clamped to 0..1000
Clamped(t) == IF t < 0 THEN 0 ELSE IF t > 1000 THEN 1000 ELSE t

\* the threshold rule: a read when r is below the threshold, a write otherwise
KindByRule(r, threshold) == IF r < threshold THEN "read" ELSE "write"

\* C19 (steps): operation n of worker w is a read when r, the 2n-th draw of the
\* worker's generator modulo 1000, is below floor(read_ratio * 1000), and a
\* write otherwise; the same holds with the threshold clamped to 0..1000,
\* whatever the sign or size of the read ratio.
C19_Steps ==
  \A w \in Workers :
    ops'[w] # ops[w] =>
      LET n == Len(ops[w]) + 1
          r == Mod64(DrawNo(args.seed + w, 2 * n), 1000)
      IN  /\ Len(ops'[w]) = n
          /\ ops'[w][n][2] = KindByRule(r, FloorThreshold(args.read_ratio))
          /\ ops'[w][n][2] = KindByRule(r, Clamped(FloorThreshold(args.read_ratio)))

\* C19 (states): a threshold <= 0 yields only writes and a threshold >= 1000
\* only reads, as the read ratios 0 and 1 do.
C19_States ==
  \A w \in Workers :
    \A n \in 1..Len(ops[w]) :
      /\ FloorThreshold(args.read_ratio) <= 0 => ops[w][n][2] = "write"
      /\ FloorThreshold(args.read_ratio) >= 1000 => ops[w][n][2] = "read"

\* C19: the kind of an operation follows the threshold rule, for read ratios
\* inside and outside [0, 1]
C19_ThresholdRule == []C19_States /\ [][C19_Steps]_vars

\* a run with read ratio -0.0005, where floor gives -1 and int() gives 0, has
\* applied two operations, both writes
C19_Witness ==
  /\ args.read_ratio = -5
  /\ FloorThreshold(args.read_ratio) < IntReads(args.read_ratio)
  /\ \E w \in Workers :
       Len(ops[w]) >= 2 /\ ops[w][1][2] = "write" /\ ops[w][2][2] = "write"
====
